---- MODULE Spec2Model ----
(***************************************************************************)
(* RiskLens backend (src/backend/main.py): the portfolio allocator with   *)
(* its cascading fallback and post-hoc weight constraints, the risk        *)
(* engine's stress test, the market-regime classifier and the /analyze     *)
(* endpoint that chains them.                                              *)
(*                                                                         *)
(* Numbers.  The program computes in binary floating point.  Here a        *)
(* weight vector is an exact rational vector [num, den]: weight i is       *)
(* num[i]/den.  Every clip, division and rounding of the source is         *)
(* computed on these rationals, so a property that fails here fails in    *)
(* the program by a margin far above floating-point error.                 *)
(***************************************************************************)
EXTENDS Integers, Sequences, FiniteSets

VARIABLES
    \* PortfolioArchitect: the object, the call and what came of it
    astage,        \* "none", "constructed", "returned", "raised", "reported"
    architect,     \* [n, force_min_weight]
    strategy,      \* the objective string build_portfolio is called with
    primaryOut,    \* what the HRP / NCO optimisation did
    mvOut,         \* what the mean-variance optimisation did, NotCalled if not reached
    built,         \* what build_portfolio returned or raised
    reported,      \* the weights after clean_payload, in units of 1e-4
    \* MarketRegime
    rstage,        \* "none", "constructed", "scored"
    regime,        \* [weekly_ok, source, rows]: which returns the object holds
    scoreOut,      \* what the scoring arithmetic of get_status did
    market_status, \* what get_status returned
    \* RiskEngine
    kstage,        \* "none", "constructed", "reported"
    series,        \* portfolio_series: the weighted returns, times 100
    garchOut,      \* what the GARCH try block did
    divIn,         \* the two volatilities of calculate_diversification_ratio
    risk_metrics,  \* what run_stress_test returned
    \* POST /analyze
    pc,            \* where the request is: "idle", "validate", "load", "regime",
                   \* "allocate", "corr", "risk", "respond", "handler", "done"
    request,       \* [raw, distinct, strategy, force_min_weight]
    dm,            \* the DataManager: [n] columns that came back, n = 0 before
    raised,        \* the exception on its way to the handler of analyze_portfolio
    response,      \* [status, detail, body]
    \* clean_payload
    cstage,        \* "none", "called", "returned"
    obj,           \* the object clean_payload is called on
    cleaned        \* what it returned

allocVars == <<astage, architect, strategy, primaryOut, mvOut, built, reported>>

regimeVars == <<rstage, regime, scoreOut, market_status>>

riskVars == <<kstage, series, garchOut, divIn, risk_metrics>>

httpVars == <<pc, request, dm, raised, response>>

cleanVars == <<cstage, obj, cleaned>>

vars == <<allocVars, regimeVars, riskVars, httpVars, cleanVars>>

(***************************************************************************)
(* Bounds of the model.                                                    *)
(***************************************************************************)
\* Largest universe explored (the program admits 2..10 tickers).
MaxAssets == 6
\* Granularity of the weights a solver hands back: multiples of 1/WeightDen.
WeightDen == 6

(***************************************************************************)
(* Program constants.                                                      *)
(***************************************************************************)
\* PortfolioRequest.tickers: Field(..., min_items=2, ...)
MinAssets == 2
\* min_w = 0.05, in hundredths
min_w == 5
\* max_w = 0.35, in hundredths
max_w == 35
\* the unit min_w and max_w are written in
Hundredths == 100
\* for _ in range(3)
ClipPasses == 3
\* round(float(obj), 4)
RoundDigits == 4

(***************************************************************************)
(* Arithmetic helpers.                                                     *)
(***************************************************************************)
Max(a, b) == IF a >= b THEN a ELSE b

Min(a, b) == IF a <= b THEN a ELSE b

Abs(a) == IF a < 0 THEN -a ELSE a

RECURSIVE GCD(_, _)
GCD(a, b) == IF b = 0 THEN a ELSE GCD(b, a % b)

RECURSIVE SumSeq(_)
SumSeq(s) == IF s = <<>> THEN 0 ELSE Head(s) + SumSeq(Tail(s))

RECURSIVE GCDSeq(_)
GCDSeq(s) == IF s = <<>> THEN 0 ELSE GCD(Head(s), GCDSeq(Tail(s)))

\* The same rational vector in lowest terms (keeps the integers small).
Reduce(v) ==
    LET g == GCD(GCDSeq(v.num), v.den)
    IN  IF g <= 1 THEN v
        ELSE [num |-> [i \in DOMAIN v.num |-> v.num[i] \div g], den |-> v.den \div g]

\* Is weight u.num[i]/u.den the same number as v.num[i]/v.den, for every i.
SameWeights(u, v) ==
    /\ DOMAIN u.num = DOMAIN v.num
    /\ \A i \in DOMAIN u.num : u.num[i] * v.den = v.num[i] * u.den

(***************************************************************************)
(* PortfolioArchitect._apply_constraints and its numpy steps.              *)
(***************************************************************************)
\* vals = np.maximum(vals, min_w)
ClipMin(v) ==
    Reduce([num |-> [i \in DOMAIN v.num |-> Max(Hundredths * v.num[i], min_w * v.den)],
            den |-> Hundredths * v.den])

\* vals = np.minimum(vals, max_w)
ClipMax(v) ==
    Reduce([num |-> [i \in DOMAIN v.num |-> Min(Hundredths * v.num[i], max_w * v.den)],
            den |-> Hundredths * v.den])

\* vals = vals / vals.sum()
Normalise(v) == Reduce([num |-> v.num, den |-> SumSeq(v.num)])

\* for _ in range(k): vals = np.minimum(vals, max_w); vals = vals / vals.sum()
RECURSIVE ClipMaxLoop(_, _)
ClipMaxLoop(v, k) == IF k = 0 THEN v ELSE ClipMaxLoop(Normalise(ClipMax(v)), k - 1)

\* The minimum clip without the division by the new sum.
ApplyMinNoRenormalise(v, force_min_weight) ==
    IF force_min_weight THEN ClipMin(v) ELSE v

ApplyMin(v, force_min_weight) ==
    IF force_min_weight THEN Normalise(ClipMin(v)) ELSE v

ApplyMax(v, objective) ==
    IF objective = "aggressive_growth" THEN ClipMaxLoop(v, ClipPasses) ELSE v

ApplyConstraints(v, objective, force_min_weight) ==
    ApplyMax(ApplyMin(v, force_min_weight), objective)

(***************************************************************************)
(* clean_payload on a float: NaN and infinities become 0.0, anything else  *)
(* is rounded to 4 decimals.  A float is [k, num, den] with k one of       *)
(* "fin", "nan", "inf"; the cleaned value is an integer count of 1e-4.     *)
(***************************************************************************)
Fin(num, den) == [k |-> "fin", num |-> num, den |-> den]

NaN == [k |-> "nan", num |-> 0, den |-> 1]

Inf == [k |-> "inf", num |-> 0, den |-> 1]

\* Long division: the quotient acc.q and remainder acc.r of r * 10^k by den,
\* one decimal digit at a time.
RECURSIVE ShiftDigits(_, _, _, _)
ShiftDigits(q, r, den, k) ==
    IF k = 0 THEN [q |-> q, r |-> r]
    ELSE ShiftDigits(10 * q + ((10 * r) \div den), (10 * r) % den, den, k - 1)

\* round(x, digits) for x = num/den >= 0: Python rounds to nearest, a tie to
\* the even neighbour.
RoundNonNeg(num, den, digits) ==
    LET d == ShiftDigits(num \div den, num % den, den, digits)
    IN  IF 2 * d.r > den THEN d.q + 1
        ELSE IF 2 * d.r < den THEN d.q
        ELSE IF d.q % 2 = 0 THEN d.q ELSE d.q + 1

Round(num, den, digits) ==
    IF num >= 0 THEN RoundNonNeg(num, den, digits) ELSE -RoundNonNeg(-num, den, digits)

\* elif isinstance(obj, (np.floating, float)): ...
CleanFloat(x) ==
    IF x.k # "fin" THEN 0 ELSE Round(x.num, x.den, RoundDigits)

\* 1.0 in units of 1e-4
One == ShiftDigits(1, 0, 1, RoundDigits).q

\* clean_payload on the weights dict: every value cleaned, keys kept.
CleanWeights(v) == [i \in DOMAIN v.num |-> CleanFloat(Fin(v.num[i], v.den))]

(***************************************************************************)
(* clean_payload on any object.  An object is [t, f, items]: t is "dict",  *)
(* "list", "tuple", "array" (an ndarray of one dimension or more, or a     *)
(* pd.Index), "float", "int", "str" or "none"; f is the number of a float  *)
(* or an int; items are the values of a container, in order (the keys of   *)
(* a dict become strings and are left out).                                *)
(***************************************************************************)
\* Deepest nesting of containers explored.
MaxDepth == 2

Containers == {"dict", "list", "tuple", "array"}

Leaf(t, f) == [t |-> t, f |-> f, items |-> <<>>]

Node(t, items) == [t |-> t, f |-> Fin(0, 1), items |-> items]

Float(x) == Leaf("float", x)

Str == Leaf("str", Fin(0, 1))

None == Leaf("none", Fin(0, 1))

\* Leaves explored: NaN, an infinity, a float with more than 4 decimals, an
\* int, a string and None.
FloatLeaves == {Float(NaN), Float(Inf), Float(Fin(1, 3))}

Leaves == FloatLeaves \cup {Leaf("int", Fin(7, 1)), Str, None}

\* Objects explored: a leaf, or a container that is empty, holds one object
\* one level down, or holds a float followed by such an object.
RECURSIVE Payloads(_)
Payloads(depth) ==
    IF depth = 0 THEN Leaves
    ELSE Leaves
         \cup {Node(t, <<>>) : t \in Containers}
         \cup {Node(t, <<x>>) : t \in Containers, x \in Payloads(depth - 1)}
         \cup {Node(t, <<l, x>>) : t \in Containers, l \in FloatLeaves, x \in Payloads(depth - 1)}

\* clean_payload recursing into dicts and lists only: tuples and arrays are
\* returned as they are.
RECURSIVE CleanPayloadListsOnly(_)
CleanPayloadListsOnly(o) ==
    IF o.t \in {"dict", "list"}
    THEN Node(o.t, [i \in DOMAIN o.items |-> CleanPayloadListsOnly(o.items[i])])
    ELSE IF o.t = "float" THEN Float(Fin(CleanFloat(o.f), One))
    ELSE o

\* clean_payload: a dict stays a dict, a list, tuple, ndarray or pd.Index
\* becomes a list, a float is cleaned, an int, a str and None are kept.
RECURSIVE CleanPayload(_)
CleanPayload(o) ==
    IF o.t = "dict"
    THEN Node("dict", [i \in DOMAIN o.items |-> CleanPayload(o.items[i])])
    ELSE IF o.t \in {"list", "tuple", "array"}
    THEN Node("list", [i \in DOMAIN o.items |-> CleanPayload(o.items[i])])
    ELSE IF o.t = "float" THEN Float(Fin(CleanFloat(o.f), One))
    ELSE o

CleanIdle ==
    /\ cstage = "none"
    /\ obj = None
    /\ cleaned = None

\* clean_payload is called on some object.
CleanPayloadInit ==
    /\ cstage = "called"
    /\ obj \in Payloads(MaxDepth)
    /\ cleaned = None

\* clean_payload(obj) returns.
CleanPayloadCall ==
    /\ cstage = "called"
    /\ cleaned' = CleanPayload(obj)
    /\ cstage' = "returned"
    /\ UNCHANGED <<obj, allocVars, regimeVars, riskVars, httpVars>>

NextClean == CleanPayloadCall

(***************************************************************************)
(* What the optimisation library hands back.  The asset universe is        *)
(* 1..n (the tickers in column order).                                     *)
(***************************************************************************)
Tickers(n) == [i \in 1..n |-> i]

\* Every way to write total as an ordered sum of n naturals.
RECURSIVE Compositions(_, _)
Compositions(n, total) ==
    IF n = 1 THEN {<<total>>}
    ELSE UNION {{<<k>> \o c : c \in Compositions(n - 1, total - k)} : k \in 0..total}

\* Any non-negative weights summing to 1, in multiples of 1/WeightDen.
ModelWeights(n) == {[num |-> c, den |-> WeightDen] : c \in Compositions(n, WeightDen)}

NoWeights == [num |-> <<>>, den |-> 1]

\* Leaf orders explored: the column order and its reverse.
LeafOrders(n) == {Tickers(n), [i \in 1..n |-> n + 1 - i]}

\* The attributes _set_cluster_order looks for on the HCPortfolio object; <<>>
\* stands for None or a missing attribute.  clusters is the linkage matrix,
\* one row per merge; a row is no ticker and is written 0.
Linkage(n) == [i \in 1..(n - 1) |-> 0]

PortAttrs(n) ==
    {[sort_order |-> o, clusters |-> Linkage(n)] : o \in LeafOrders(n)}
    \cup {[sort_order |-> <<>>, clusters |-> Linkage(n)],
          [sort_order |-> <<>>, clusters |-> <<>>]}

NoPort == [sort_order |-> <<>>, clusters |-> <<>>]

NotCalled == [kind |-> "not_called", w |-> NoWeights, port |-> NoPort]

Raised == [kind |-> "raise", w |-> NoWeights, port |-> NoPort]

Empty == [kind |-> "empty", w |-> NoWeights, port |-> NoPort]

\* port.optimization(model='HRP' | 'NCO', ...): raises, returns None or an empty
\* frame, or returns weights.
PrimaryOutcomes(n) ==
    {Raised, Empty}
    \cup {[kind |-> "ok", w |-> w, port |-> p] : w \in ModelWeights(n), p \in PortAttrs(n)}

\* min_w = 0.05 if self.force_min_weight else 0.0
MvLower(force_min_weight) == IF force_min_weight THEN min_w ELSE 0

\* max_w = 0.35 if objective == 'aggressive_growth' else 1.0
MvUpper(objective) == IF objective = "aggressive_growth" THEN max_w ELSE Hundredths

InBox(w, lo, hi) ==
    \A i \in DOMAIN w.num :
        /\ Hundredths * w.num[i] >= lo * w.den
        /\ Hundredths * w.num[i] <= hi * w.den

\* port.optimization(model='Classic', ...) under the bounds the code sets on the
\* portfolio object: raises, returns None (no feasible point, no convergence), or
\* returns weights inside the box.
MvOutcomes(n, objective, force_min_weight) ==
    {Raised, Empty}
    \cup {[kind |-> "ok", w |-> w, port |-> NoPort] :
            w \in {x \in ModelWeights(n) :
                     InBox(x, MvLower(force_min_weight), MvUpper(objective))}}

(***************************************************************************)
(* PortfolioArchitect.                                                     *)
(***************************************************************************)
Objectives == {"safety_first", "smart_balance", "aggressive_growth", "other"}

\* The model build_portfolio tries first.
PrimaryModel(objective) == IF objective = "safety_first" THEN "HRP" ELSE "NCO"

\* _set_cluster_order
SetClusterOrder(port, tickers) ==
    IF port.sort_order # <<>> THEN port.sort_order
    ELSE IF port.clusters # <<>> THEN port.clusters
    ELSE tickers

Failure(attempts) ==
    [outcome |-> "raise", weights |-> NoWeights, cluster_order |-> <<>>,
     via |-> "none", attempts |-> attempts, steps |-> <<>>]

\* _process_weights: the tail of _build_hrp and _build_nco.  steps lists the
\* calls made on the weights, in order.
ProcessWeights(out, objective, force_min_weight, tickers, attempts) ==
    IF out.kind # "ok" THEN Failure(attempts)
    ELSE [outcome |-> "return",
          weights |-> ApplyConstraints(out.w, objective, force_min_weight),
          cluster_order |-> SetClusterOrder(out.port, tickers),
          via |-> PrimaryModel(objective),
          attempts |-> attempts,
          steps |-> <<"optimization", "_apply_constraints", "_set_cluster_order">>]

\* _build_mean_variance
BuildMeanVariance(out, tickers, attempts) ==
    IF out.kind # "ok" \/ SumSeq(out.w.num) = 0 THEN Failure(attempts)
    ELSE [outcome |-> "return",
          weights |-> Normalise(out.w),
          cluster_order |-> tickers,
          via |-> "MV",
          attempts |-> attempts,
          steps |-> <<"optimization", "normalize">>]

\* build_portfolio with a third, equal-weight fallback in place of the raise.
BuildPortfolioEqualWeights(objective, force_min_weight, tickers, primary, mv) ==
    LET first == ProcessWeights(primary, objective, force_min_weight, tickers,
                                <<PrimaryModel(objective)>>)
        second == BuildMeanVariance(mv, tickers, <<PrimaryModel(objective), "MV">>)
    IN  IF first.outcome = "return" THEN first
        ELSE IF second.outcome = "return" THEN second
        ELSE [outcome |-> "return",
              weights |-> [num |-> [i \in DOMAIN tickers |-> 1], den |-> Len(tickers)],
              cluster_order |-> tickers,
              via |-> "equal",
              attempts |-> <<PrimaryModel(objective), "MV">>,
              steps |-> <<>>]

\* build_portfolio, given what the primary optimisation and (when it is
\* reached) the mean-variance optimisation do.  attempts is the sequence of
\* "Attempting ..." / "Fallback Strategy ..." lines it prints.
BuildPortfolio(objective, force_min_weight, tickers, primary, mv) ==
    LET first == ProcessWeights(primary, objective, force_min_weight, tickers,
                                <<PrimaryModel(objective)>>)
    IN  IF first.outcome = "return" THEN first
        ELSE BuildMeanVariance(mv, tickers, <<PrimaryModel(objective), "MV">>)

NotBuilt == Failure(<<>>)

AllocIdle ==
    /\ astage = "none"
    /\ architect = [n |-> 0, force_min_weight |-> FALSE]
    /\ strategy = "none"
    /\ primaryOut = NotCalled
    /\ mvOut = NotCalled
    /\ built = NotBuilt
    /\ reported = <<>>

(***************************************************************************)
(* RiskEngine.                                                             *)
(***************************************************************************)
\* Longest portfolio series explored.
MaxRows == 3
\* Returns explored are the integers -MaxReturn..MaxReturn.
MaxReturn == 2
\* np.percentile(portfolio_series, 5)
Percentile == 5

\* The largest u in lo..hi with u * u <= x.
RECURSIVE ISqrtBetween(_, _, _)
ISqrtBetween(x, lo, hi) ==
    IF lo >= hi THEN lo
    ELSE LET mid == (lo + hi + 1) \div 2
         IN  IF mid * mid <= x THEN ISqrtBetween(x, mid, hi)
             ELSE ISqrtBetween(x, lo, mid - 1)

\* np.sqrt of num/den, cut after RoundDigits decimals; NaN below zero.
Sqrt(num, den) ==
    IF num < 0 THEN NaN
    ELSE Fin(ISqrtBetween(ShiftDigits(num \div den, num % den, den, 2 * RoundDigits).q,
                          0, 46340),
             One)

RECURSIVE SumSquares(_)
SumSquares(s) == IF s = <<>> THEN 0 ELSE Head(s) * Head(s) + SumSquares(Tail(s))

\* portfolio_series.std(): the sample standard deviation (ddof = 1), NaN for
\* fewer than 2 rows.
SampleStd(s) ==
    IF Len(s) < 2 THEN NaN
    ELSE Sqrt(Len(s) * SumSquares(s) - SumSeq(s) * SumSeq(s), Len(s) * (Len(s) - 1))

RECURSIVE Insert(_, _)
Insert(x, s) ==
    IF s = <<>> THEN <<x>>
    ELSE IF x <= Head(s) THEN <<x>> \o s
    ELSE <<Head(s)>> \o Insert(x, Tail(s))

RECURSIVE Sorted(_)
Sorted(s) == IF s = <<>> THEN <<>> ELSE Insert(Head(s), Sorted(Tail(s)))

\* np.percentile(s, q), linear interpolation between the two nearest ranks, as
\* a count of hundredths.
PercentileHundredths(s, q) ==
    LET pos == (Len(s) - 1) * q
        lo == pos \div Hundredths + 1
        rem == pos % Hundredths
        a == Sorted(s)
    IN  IF rem = 0 THEN Hundredths * a[lo]
        ELSE Hundredths * a[lo] + rem * (a[lo + 1] - a[lo])

\* portfolio_series[portfolio_series <= -VaR_95], VaR_95 in hundredths
RECURSIVE TailAtOrBelow(_, _)
TailAtOrBelow(s, varHundredths) ==
    IF s = <<>> THEN <<>>
    ELSE IF Hundredths * Head(s) <= -varHundredths
         THEN <<Head(s)>> \o TailAtOrBelow(Tail(s), varHundredths)
    ELSE TailAtOrBelow(Tail(s), varHundredths)

\* The historical fallback with the sign of the percentile kept.
HistoricalFallbackSigned(s, var_before, es_before) ==
    IF s = <<>> THEN [VaR_95 |-> var_before, ES_95 |-> es_before]
    ELSE LET v == PercentileHundredths(s, Percentile)
             tail == TailAtOrBelow(s, v)
         IN  [VaR_95 |-> Fin(v, Hundredths),
              ES_95 |-> IF Len(tail) > 0 THEN Fin(Abs(SumSeq(tail)), Len(tail))
                        ELSE Fin(v, Hundredths)]

\* The except branch of run_stress_test: historical VaR and ES.  On an empty
\* series np.percentile raises and VaR_95, ES_95 keep the values they had.
HistoricalFallback(s, var_before, es_before) ==
    IF s = <<>> THEN [VaR_95 |-> var_before, ES_95 |-> es_before]
    ELSE LET v == Abs(PercentileHundredths(s, Percentile))
             tail == TailAtOrBelow(s, v)
         IN  [VaR_95 |-> Fin(v, Hundredths),
              ES_95 |-> IF Len(tail) > 0 THEN Fin(Abs(SumSeq(tail)), Len(tail))
                        ELSE Fin(v, Hundredths)]

\* Floats the GARCH forecast may produce.
GarchValues == {Fin(0, 1), Fin(3, 2), NaN}

\* The try block around arch_model: it raises before anything is assigned
\* ("raise_fit"), raises after VaR_95 was assigned ("raise_late"), or runs
\* through and assigns VaR_95, ES_95 and vol.
GarchOutcomes ==
    {[kind |-> "raise_fit", vol |-> Fin(0, 1), VaR_95 |-> Fin(0, 1), ES_95 |-> Fin(0, 1)]}
    \cup {[kind |-> "raise_late", vol |-> Fin(0, 1), VaR_95 |-> v, ES_95 |-> Fin(0, 1)] :
            v \in GarchValues}
    \cup {[kind |-> "ok", vol |-> v, VaR_95 |-> a, ES_95 |-> e] :
            v \in GarchValues, a \in GarchValues, e \in GarchValues}

NoGarch == [kind |-> "none", vol |-> Fin(0, 1), VaR_95 |-> Fin(0, 1), ES_95 |-> Fin(0, 1)]

\* weighted_sum_vols and portfolio_vol of calculate_diversification_ratio
DivInputs ==
    {[weighted_sum_vols |-> Fin(3, 2), portfolio_vol |-> Fin(1, 1)],
     [weighted_sum_vols |-> Fin(1, 1), portfolio_vol |-> Fin(0, 1)],
     [weighted_sum_vols |-> Fin(1, 1), portfolio_vol |-> NaN]}

NoDiv == [weighted_sum_vols |-> Fin(0, 1), portfolio_vol |-> Fin(0, 1)]

\* calculate_diversification_ratio
DiversificationRatio(d) ==
    IF d.portfolio_vol.k = "fin" /\ d.portfolio_vol.num > 0
    THEN IF d.weighted_sum_vols.k = "fin"
         THEN Fin(d.weighted_sum_vols.num * d.portfolio_vol.den,
                  d.weighted_sum_vols.den * d.portfolio_vol.num)
         ELSE d.weighted_sum_vols
    ELSE Fin(1, 1)

\* RiskEngine.run_stress_test
RunStressTest(s, g, d) ==
    LET std == SampleStd(s)
        hist == HistoricalFallback(s, g.VaR_95, g.ES_95)
    IN  IF g.kind = "ok"
        THEN [volatility |-> g.vol, VaR_95 |-> g.VaR_95, ES_95 |-> g.ES_95,
              diversification_ratio |-> DiversificationRatio(d)]
        ELSE [volatility |-> std, VaR_95 |-> hist.VaR_95, ES_95 |-> hist.ES_95,
              diversification_ratio |-> DiversificationRatio(d)]

RECURSIVE SeriesOfLength(_)
SeriesOfLength(len) ==
    IF len = 0 THEN {<<>>}
    ELSE {<<x>> \o t : x \in (-MaxReturn)..MaxReturn, t \in SeriesOfLength(len - 1)}

\* The return matrix has at least 50 price rows (fetch_market_data), so a
\* portfolio series has 2 rows or more.
PortfolioSeries == UNION {SeriesOfLength(len) : len \in 2..MaxRows}

NoMetrics ==
    [volatility |-> Fin(0, 1), VaR_95 |-> Fin(0, 1), ES_95 |-> Fin(0, 1),
     diversification_ratio |-> Fin(0, 1)]

RiskIdle ==
    /\ kstage = "none"
    /\ series = <<>>
    /\ garchOut = NoGarch
    /\ divIn = NoDiv
    /\ risk_metrics = NoMetrics

\* risk_engine = RiskEngine(dm, weights_dict)
RiskEngineInit ==
    /\ kstage = "constructed"
    /\ series \in PortfolioSeries
    /\ garchOut = NoGarch
    /\ divIn = NoDiv
    /\ risk_metrics = NoMetrics

\* risk_metrics = risk_engine.run_stress_test()
StressTest ==
    /\ kstage = "constructed"
    /\ \E g \in GarchOutcomes, d \in DivInputs :
         /\ garchOut' = g
         /\ divIn' = d
         /\ risk_metrics' = RunStressTest(series, g, d)
    /\ kstage' = "reported"
    /\ UNCHANGED <<series, allocVars, regimeVars, httpVars, cleanVars>>

NextRisk == StressTest

(***************************************************************************)
(* MarketRegime.                                                           *)
(***************************************************************************)
\* Largest number of return rows a MarketRegime is handed.
MaxRegimeRows == 3
\* Scores explored are multiples of 1/ScoreDen ...
ScoreDen == 2
\* ... from -1/ScoreDen up to MaxScoreNum/ScoreDen.
MaxScoreNum == 52
\* if score < 12
CalmBelow == 12
\* elif score < 25
ChoppyBelow == 25

\* score < bound, for a finite float score
Below(score, bound) == score.num < bound * score.den

\* What diff.dot(cov_inv).dot(diff) evaluates to: the quadratic form of a
\* pseudo-inverse, which floating point can leave a little below zero.
ScoreValues == {Fin(k, ScoreDen) : k \in (-1)..MaxScoreNum}

NotScored == [kind |-> "none", score |-> Fin(0, 1)]

\* The try block of get_status: mean, cov, pinv, iloc[-1] and the quadratic
\* form.  With fewer than 2 rows cov is all-NaN (no row: iloc[-1] fails) and
\* the block raises; otherwise it yields a score or pinv fails to converge.
ScoreOutcomes(rows) ==
    {[kind |-> "raise", score |-> Fin(0, 1)]}
    \cup (IF rows < 2 THEN {} ELSE {[kind |-> "value", score |-> v] : v \in ScoreValues})

\* return {"score": 0.0, "color": "Green", "message": "Unknown"}
SafeDefault == [score |-> Fin(0, 1), color |-> "Green", message |-> "Unknown"]

NoStatus == [score |-> Fin(0, 1), color |-> "none", message |-> "none"]

\* get_status with the thresholds compared by <= instead of <.
GetStatusInclusive(out) ==
    IF out.kind = "raise" THEN SafeDefault
    ELSE IF out.score.num <= CalmBelow * out.score.den
         THEN [score |-> out.score, color |-> "Green", message |-> "Calm"]
    ELSE IF out.score.num <= ChoppyBelow * out.score.den
         THEN [score |-> out.score, color |-> "Yellow", message |-> "Choppy"]
    ELSE [score |-> out.score, color |-> "Red", message |-> "Turbulent"]

\* get_status without its except clause: a failure leaves no status.
GetStatusNoDefault(out) ==
    IF out.kind = "raise" THEN NoStatus
    ELSE IF Below(out.score, CalmBelow)
         THEN [score |-> out.score, color |-> "Green", message |-> "Calm"]
    ELSE IF Below(out.score, ChoppyBelow)
         THEN [score |-> out.score, color |-> "Yellow", message |-> "Choppy"]
    ELSE [score |-> out.score, color |-> "Red", message |-> "Turbulent"]

\* MarketRegime.get_status
GetStatus(out) ==
    IF out.kind = "raise" THEN SafeDefault
    ELSE IF Below(out.score, CalmBelow)
         THEN [score |-> out.score, color |-> "Green", message |-> "Calm"]
    ELSE IF Below(out.score, ChoppyBelow)
         THEN [score |-> out.score, color |-> "Yellow", message |-> "Choppy"]
    ELSE [score |-> out.score, color |-> "Red", message |-> "Turbulent"]

\* MarketRegime.__init__: the weekly resampling, or the daily returns when it raises.
RegimeReturns(weekly_ok, rows) ==
    [weekly_ok |-> weekly_ok, source |-> IF weekly_ok THEN "weekly" ELSE "daily",
     rows |-> rows]

NoRegime == [weekly_ok |-> TRUE, source |-> "none", rows |-> 0]

RegimeIdle ==
    /\ rstage = "none"
    /\ regime = NoRegime
    /\ scoreOut = NotScored
    /\ market_status = NoStatus

\* regime = MarketRegime(dm)
MarketRegimeInit ==
    /\ rstage = "none"
    /\ \E ok \in BOOLEAN, rows \in 0..MaxRegimeRows :
         regime' = RegimeReturns(ok, rows)
    /\ rstage' = "constructed"
    /\ UNCHANGED <<scoreOut, market_status, allocVars, riskVars, httpVars, cleanVars>>

\* market_status = regime.get_status()
GetStatusCall ==
    /\ rstage = "constructed"
    /\ \E out \in ScoreOutcomes(regime.rows) :
         /\ scoreOut' = out
         /\ market_status' = GetStatus(out)
    /\ rstage' = "scored"
    /\ UNCHANGED <<regime, allocVars, riskVars, httpVars, cleanVars>>

NextRegime == MarketRegimeInit \/ GetStatusCall

(***************************************************************************)
(* The allocator on its own: a PortfolioArchitect is constructed over an   *)
(* n-asset return matrix, build_portfolio is called once, and the weights  *)
(* it returns are cleaned for the response.                                *)
(***************************************************************************)
\* PortfolioArchitect.__init__
ArchitectInit ==
    /\ astage = "constructed"
    /\ architect \in [n : MinAssets..MaxAssets, force_min_weight : BOOLEAN]
    /\ strategy \in Objectives
    /\ primaryOut = NotCalled
    /\ mvOut = NotCalled
    /\ built = NotBuilt
    /\ reported = <<>>

\* The mean-variance optimisation runs only when the primary attempt failed.
MvReached(objective, force_min_weight, tickers, primary) ==
    ProcessWeights(primary, objective, force_min_weight, tickers, <<>>).outcome = "raise"

\* architect.build_portfolio(strategy)
Allocate ==
    /\ astage = "constructed"
    /\ \E p \in PrimaryOutcomes(architect.n) :
         \E m \in (IF MvReached(strategy, architect.force_min_weight,
                                Tickers(architect.n), p)
                   THEN MvOutcomes(architect.n, strategy, architect.force_min_weight)
                   ELSE {NotCalled}) :
            /\ primaryOut' = p
            /\ mvOut' = m
            /\ built' = BuildPortfolio(strategy, architect.force_min_weight,
                                       Tickers(architect.n), p, m)
            /\ astage' = IF built'.outcome = "return" THEN "returned" ELSE "raised"
    /\ UNCHANGED <<architect, strategy, reported, regimeVars, riskVars, httpVars, cleanVars>>

\* clean_payload over the weights of the response
ReportWeights ==
    /\ astage = "returned"
    /\ reported' = CleanWeights(built.weights)
    /\ astage' = "reported"
    /\ UNCHANGED <<architect, strategy, primaryOut, mvOut, built, regimeVars, riskVars, httpVars, cleanVars>>

NextAllocator == Allocate \/ ReportWeights

(***************************************************************************)
(* POST /analyze: PortfolioRequest validation, then analyze_portfolio.     *)
(* The endpoint runs the three components over one request; the outcomes   *)
(* its library calls are given here are a few of each kind.               *)
(***************************************************************************)
\* Largest number of ticker strings in a request explored.
MaxRequestTickers == 3
\* PortfolioRequest.tickers: Field(..., max_items=10)
MaxItems == 10

GenericDetail == "Internal Calculation Error. Please check inputs and try again."

AllFailedText == "Portfolio optimization failed for all methods. Please check input data."

NoException == [type |-> "none", text |-> "", cause |-> "none"]

NoResponse == [status |-> 0, detail |-> "", body |-> <<>>]

Requests ==
    {r \in [raw : 0..MaxRequestTickers, distinct : 0..MaxRequestTickers,
            strategy : Objectives, force_min_weight : BOOLEAN] :
        /\ r.distinct <= r.raw
        /\ r.raw > 0 => r.distinct > 0}

NoRequest == [raw |-> 0, distinct |-> 0, strategy |-> "none", force_min_weight |-> FALSE]

\* PortfolioRequest: min_items / max_items on the list, then sanitize_tickers on
\* the distinct tickers.
ValidRequest(r) ==
    /\ r.raw >= MinAssets
    /\ r.raw <= MaxItems
    /\ r.distinct >= MinAssets
    /\ r.distinct <= MaxItems

\* What fetch_market_data does: returns the frame, raises one of its own
\* ValueErrors, or lets any other exception of the download or of pandas out.
FetchOutcomes ==
    {[kind |-> "data", text |-> ""]}
    \cup {[kind |-> "ValueError", text |-> t] :
            t \in {"Market data source returned empty result. Please check connection.",
                   "Could not find data for ticker(s)",
                   "Not enough historical data",
                   "After cleaning data, fewer than 2 assets remain. Cannot build portfolio."}}
    \cup {[kind |-> "Exception", text |-> "text of an exception inside the download"]}

\* DataManager.__init__: except Exception as e: raise ValueError(str(e))
DataManagerRaises(f) ==
    IF f.kind = "data" THEN NoException
    ELSE [type |-> "ValueError",
          text |-> f.text,
          cause |-> IF f.kind = "ValueError" THEN "client" ELSE "internal"]

\* except ValueError ... / except Exception ... of analyze_portfolio
Handle(e) ==
    IF e.type = "ValueError"
    THEN [status |-> 400, detail |-> e.text, body |-> <<>>]
    ELSE [status |-> 500, detail |-> GenericDetail, body |-> <<>>]

\* An exception no step of the endpoint expects.
Unexpected == [type |-> "Exception", text |-> "text of an unexpected exception",
               cause |-> "internal"]

\* Scoring outcomes given to the endpoint: a failure and a score in each class.
EndpointScoreOutcomes ==
    {[kind |-> "raise", score |-> Fin(0, 1)]}
    \cup {[kind |-> "value", score |-> Fin(v, 1)] : v \in {0, CalmBelow, ChoppyBelow}}

\* Primary outcomes given to the endpoint: a failure, and all the weight on
\* the first asset.
EndpointPrimaryOutcomes(n) ==
    {Raised,
     [kind |-> "ok",
      w |-> [num |-> [i \in 1..n |-> IF i = 1 THEN 1 ELSE 0], den |-> 1],
      port |-> [sort_order |-> Tickers(n), clusters |-> Linkage(n)]]}

\* Mean-variance outcomes given to the endpoint: a failure, and equal weights
\* when they lie inside the box.
EndpointMvOutcomes(n, objective, force_min_weight) ==
    {Raised}
    \cup {[kind |-> "ok", w |-> w, port |-> NoPort] :
            w \in {x \in {[num |-> [i \in 1..n |-> 1], den |-> n]} :
                     InBox(x, MvLower(force_min_weight), MvUpper(objective))}}

EndpointSeries == {<<-1, 1>>}

EndpointGarchOutcomes ==
    {g \in GarchOutcomes :
        \/ g.kind = "raise_fit"
        \/ g.kind = "ok" /\ g.vol = g.VaR_95 /\ g.VaR_95 = g.ES_95}

\* dm.returns.corr().round(4): ones on the diagonal, c elsewhere
CorrMatrix(n, c) == [i \in 1..n |-> [j \in 1..n |-> IF i = j THEN Fin(1, 1) ELSE c]]

\* clean_payload(response_payload)
CleanResponse(status, w, order, metrics, n, corr) ==
    [market_status |-> [score |-> CleanFloat(status.score), color |-> status.color,
                        message |-> status.message],
     weights |-> CleanWeights(w),
     risk_metrics |-> [f \in DOMAIN metrics |-> CleanFloat(metrics[f])],
     cluster_order |-> order,
     correlation_matrix |->
        [labels |-> Tickers(n),
         values |-> [i \in 1..n |-> [j \in 1..n |-> CleanFloat(corr[i][j])]]]]

\* response_payload as the object handed to clean_payload: the tickers are
\* strings, a row of the linkage matrix is an array of 4 floats.
ResponsePayload(status, w, order, metrics, n, corr) ==
    Node("dict",
         <<Node("dict", <<Float(status.score), Str, Str>>),
           Node("dict", [i \in DOMAIN w.num |-> Float(Fin(w.num[i], w.den))]),
           Node("dict", <<Float(metrics.volatility), Float(metrics.VaR_95),
                          Float(metrics.ES_95), Float(metrics.diversification_ratio)>>),
           Node("list", [i \in DOMAIN order |->
                           IF order[i] = 0
                           THEN Node("array", <<Float(Fin(0, 1)), Float(Fin(1, 1)),
                                                Float(Fin(1, 2)), Float(Fin(2, 1))>>)
                           ELSE Str]),
           Node("dict", <<Node("list", [i \in 1..n |-> Str]),
                          Node("list", [i \in 1..n |->
                                          Node("list", [j \in 1..n |-> Float(corr[i][j])])])>>)>>)

HttpIdle ==
    /\ pc = "idle"
    /\ request = NoRequest
    /\ dm = [n |-> 0]
    /\ raised = NoException
    /\ response = NoResponse

\* A request arrives.
RequestInit ==
    /\ pc = "validate"
    /\ request \in Requests
    /\ dm = [n |-> 0]
    /\ raised = NoException
    /\ response = NoResponse

\* PortfolioRequest(...): FastAPI answers 422 itself when validation fails.
Validate ==
    /\ pc = "validate"
    /\ IF ValidRequest(request)
       THEN pc' = "load" /\ response' = response
       ELSE /\ pc' = "done"
            /\ response' = [status |-> 422, detail |-> "validation error", body |-> <<>>]
    /\ UNCHANGED <<request, dm, raised, allocVars, regimeVars, riskVars, cleanVars>>

\* dm = DataManager(request.tickers)
LoadData ==
    /\ pc = "load"
    /\ \E f \in FetchOutcomes :
         /\ raised' = DataManagerRaises(f)
         /\ dm' = IF f.kind = "data" THEN [n |-> request.distinct] ELSE dm
         /\ pc' = IF f.kind = "data" THEN "regime" ELSE "handler"
    /\ UNCHANGED <<request, response, allocVars, regimeVars, riskVars, cleanVars>>

\* regime = MarketRegime(dm); market_status = regime.get_status()
AnalyzeRegime ==
    /\ pc = "regime"
    /\ \E ok \in BOOLEAN, out \in EndpointScoreOutcomes :
         /\ regime' = RegimeReturns(ok, MaxRegimeRows)
         /\ scoreOut' = out
         /\ market_status' = GetStatus(out)
    /\ rstage' = "scored"
    /\ pc' = "allocate"
    /\ UNCHANGED <<request, dm, raised, response, allocVars, riskVars, cleanVars>>

\* architect = PortfolioArchitect(dm, ...); architect.build_portfolio(request.strategy)
AnalyzeAllocate ==
    /\ pc = "allocate"
    /\ architect' = [n |-> dm.n, force_min_weight |-> request.force_min_weight]
    /\ strategy' = request.strategy
    /\ \E p \in EndpointPrimaryOutcomes(dm.n) :
         \E m \in (IF MvReached(request.strategy, request.force_min_weight, Tickers(dm.n), p)
                   THEN EndpointMvOutcomes(dm.n, request.strategy, request.force_min_weight)
                   ELSE {NotCalled}) :
            /\ primaryOut' = p
            /\ mvOut' = m
            /\ built' = BuildPortfolio(request.strategy, request.force_min_weight,
                                       Tickers(dm.n), p, m)
    /\ astage' = IF built'.outcome = "return" THEN "returned" ELSE "raised"
    /\ raised' = IF built'.outcome = "return" THEN raised
                 ELSE [type |-> "ValueError", text |-> AllFailedText, cause |-> "client"]
    /\ pc' = IF built'.outcome = "return" THEN "corr" ELSE "handler"
    /\ UNCHANGED <<reported, request, dm, response, regimeVars, riskVars, cleanVars>>

\* corr_matrix = dm.returns.corr().round(4)
AnalyzeCorrelation ==
    /\ pc = "corr"
    /\ \E fails \in BOOLEAN :
         /\ raised' = IF fails THEN Unexpected ELSE raised
         /\ pc' = IF fails THEN "handler" ELSE "risk"
    /\ UNCHANGED <<request, dm, response, allocVars, regimeVars, riskVars, cleanVars>>

\* risk_engine = RiskEngine(dm, weights_dict); risk_engine.run_stress_test()
AnalyzeRisk ==
    /\ pc = "risk"
    /\ \E fails \in BOOLEAN, s \in EndpointSeries, g \in EndpointGarchOutcomes, d \in DivInputs :
         /\ raised' = IF fails THEN Unexpected ELSE raised
         /\ pc' = IF fails THEN "handler" ELSE "respond"
         /\ series' = IF fails THEN series ELSE s
         /\ garchOut' = IF fails THEN garchOut ELSE g
         /\ divIn' = IF fails THEN divIn ELSE d
         /\ risk_metrics' = IF fails THEN risk_metrics ELSE RunStressTest(s, g, d)
         /\ kstage' = IF fails THEN kstage ELSE "reported"
    /\ UNCHANGED <<request, dm, response, allocVars, regimeVars, cleanVars>>

\* return clean_payload(response_payload)
Respond ==
    /\ pc = "respond"
    /\ reported' = CleanWeights(built.weights)
    /\ astage' = "reported"
    /\ response' = [status |-> 200, detail |-> "",
                    body |-> CleanResponse(market_status, built.weights, built.cluster_order,
                                           risk_metrics, dm.n, CorrMatrix(dm.n, Fin(1, 2)))]
    /\ obj' = ResponsePayload(market_status, built.weights, built.cluster_order,
                               risk_metrics, dm.n, CorrMatrix(dm.n, Fin(1, 2)))
    /\ cleaned' = CleanPayload(obj')
    /\ cstage' = "returned"
    /\ pc' = "done"
    /\ UNCHANGED <<architect, strategy, primaryOut, mvOut, built, request, dm, raised,
                   regimeVars, riskVars>>

\* The except clauses of analyze_portfolio.
HandleException ==
    /\ pc = "handler"
    /\ response' = Handle(raised)
    /\ pc' = "done"
    /\ UNCHANGED <<request, dm, raised, allocVars, regimeVars, riskVars, cleanVars>>

Next ==
    \/ Validate
    \/ LoadData
    \/ AnalyzeRegime
    \/ AnalyzeAllocate
    \/ AnalyzeCorrelation
    \/ AnalyzeRisk
    \/ Respond
    \/ HandleException

(***************************************************************************)
(* Specifications.  Each component is exercised on its own, from its       *)
(* construction, with the other objects absent; Spec is the endpoint.      *)
(***************************************************************************)
InitAllocator == ArchitectInit /\ RegimeIdle /\ RiskIdle /\ HttpIdle /\ CleanIdle

SpecAllocator == InitAllocator /\ [][NextAllocator]_vars

InitRegime == RegimeIdle /\ AllocIdle /\ RiskIdle /\ HttpIdle /\ CleanIdle

SpecRegime == InitRegime /\ [][NextRegime]_vars

InitRisk == RiskEngineInit /\ AllocIdle /\ RegimeIdle /\ HttpIdle /\ CleanIdle

SpecRisk == InitRisk /\ [][NextRisk]_vars

Init == RequestInit /\ AllocIdle /\ RegimeIdle /\ RiskIdle /\ CleanIdle

Spec == Init /\ [][Next]_vars

InitClean == CleanPayloadInit /\ AllocIdle /\ RegimeIdle /\ RiskIdle /\ HttpIdle

SpecClean == InitClean /\ [][NextClean]_vars

(***************************************************************************)
(* Claims about the allocator (checked under SpecAllocator).               *)
(***************************************************************************)
Finished == astage \in {"returned", "raised", "reported"}

Succeeded == astage \in {"returned", "reported"}

FailedOutcome(out) == out.kind \in {"raise", "empty"}

\* floor(10^RoundDigits * weight i) and what is left of it
WeightUnits(v, i) == ShiftDigits(v.num[i] \div v.den, v.num[i] % v.den, v.den, RoundDigits)

\* weight i >= units * 1e-4
AtLeastUnits(v, i, units) == WeightUnits(v, i).q >= units

\* weight i <= units * 1e-4
AtMostUnits(v, i, units) ==
    \/ WeightUnits(v, i).q < units
    \/ WeightUnits(v, i).q = units /\ WeightUnits(v, i).r = 0

\* min_w and max_w in units of 1e-4
MinUnits == (min_w * One) \div Hundredths

MaxUnits == (max_w * One) \div Hundredths

\* C1: build_portfolio raises only if every strategy of the cascade failed.  It
\* tries HRP for safety_first and NCO for any other objective, reaches
\* mean-variance only after the primary attempt failed, returns the result of
\* the first strategy that succeeds, and when both fail it raises without
\* returning any weights (no equal-weight substitute).
C1_CascadeRaisesOnlyWhenAllFail ==
    Finished =>
        /\ built.attempts[1] = (IF strategy = "safety_first" THEN "HRP" ELSE "NCO")
        /\ (built.outcome = "raise") <=> (FailedOutcome(primaryOut) /\ FailedOutcome(mvOut))
        /\ (mvOut = NotCalled) <=> (primaryOut.kind = "ok")
        /\ primaryOut.kind = "ok" =>
              /\ built.outcome = "return"
              /\ built.via = built.attempts[1]
              /\ built.attempts = <<built.via>>
        /\ (FailedOutcome(primaryOut) /\ mvOut.kind = "ok") =>
              /\ built.outcome = "return"
              /\ built.via = "MV"
              /\ built.attempts = <<PrimaryModel(strategy), "MV">>
              /\ SameWeights(built.weights, mvOut.w)
        /\ built.outcome = "raise" =>
              /\ astage = "raised"
              /\ built.weights = NoWeights
              /\ built.attempts = <<PrimaryModel(strategy), "MV">>

\* C1 witness: both the primary model and mean-variance failed and the call raised.
C1_Witness ==
    /\ astage = "raised"
    /\ primaryOut.kind = "raise"
    /\ mvOut.kind = "empty"
    /\ built.attempts = <<"HRP", "MV">>

\* C2 as claimed: with force_min_weight set, every weight build_portfolio
\* returns is at least 0.05 (less 1e-4).
C2_MinWeightRespected ==
    (Succeeded /\ architect.force_min_weight) =>
        \A i \in DOMAIN built.weights.num : AtLeastUnits(built.weights, i, MinUnits - 1)

\* C3 as claimed, on the universes where the cap can be met at all (0.35 * n >= 1):
\* under aggressive_growth every weight build_portfolio returns is at most
\* 0.35 (plus 1e-4).
C3_MaxWeightRespected ==
    (Succeeded /\ strategy = "aggressive_growth" /\ max_w * architect.n >= Hundredths) =>
        \A i \in DOMAIN built.weights.num : AtMostUnits(built.weights, i, MaxUnits + 1)

\* C4 as claimed: the weights of a successful allocation, rounded to 4 decimals
\* for the response, sum to 1 within 1e-4.
C4_ReportedSumWithin1e4 ==
    astage = "reported" => Abs(SumSeq(reported) - One) <= 1

\* C4 amended: the weights build_portfolio returns sum to exactly 1, and after
\* the 4-decimal rounding of clean_payload they sum to 1 within half a unit of
\* the last decimal per asset (n * 0.5e-4).
C4_ReportedSumWithinHalfUnitPerAsset ==
    /\ Succeeded => SumSeq(built.weights.num) = built.weights.den
    /\ astage = "reported" =>
          /\ Len(reported) = architect.n
          /\ 2 * Abs(SumSeq(reported) - One) <= architect.n

\* C4 witness: a reported allocation whose rounded weights are 2e-4 or more away
\* from 1 in sum.
C4_Witness ==
    /\ astage = "reported"
    /\ Abs(SumSeq(reported) - One) >= 2

(***************************************************************************)
(* Claims about the risk engine (checked under SpecRisk).                  *)
(***************************************************************************)
FitFailed == kstage = "reported" /\ garchOut.kind \in {"raise_fit", "raise_late"}

FiniteNonNeg(x) == x.k = "fin" /\ x.den > 0 /\ x.num >= 0

\* An index of a smallest element of the series, and the smallest of the rest.
LowestIndex == CHOOSE i \in DOMAIN series : \A j \in DOMAIN series : series[i] <= series[j]

SecondLowest ==
    CHOOSE v \in {series[j] : j \in DOMAIN series \ {LowestIndex}} :
        \A k \in DOMAIN series \ {LowestIndex} : v <= series[k]

\* The rows at or below minus the reported VaR_95.
TailRows ==
    {i \in DOMAIN series :
        series[i] * risk_metrics.VaR_95.den <= -risk_metrics.VaR_95.num}

RECURSIVE SumOver(_, _)
SumOver(s, idx) ==
    IF idx = {} THEN 0
    ELSE LET i == CHOOSE x \in idx : TRUE IN s[i] + SumOver(s, idx \ {i})

\* floor(10^8 * sample variance of the series)
VarianceUnits ==
    LET n == Len(series)
        ss == n * SumSquares(series) - SumSeq(series) * SumSeq(series)
    IN  ShiftDigits(ss \div (n * (n - 1)), ss % (n * (n - 1)), n * (n - 1), 2 * RoundDigits).q

C9_RiskContributionPresent ==
    kstage = "reported" =>
        /\ "risk_contribution" \in DOMAIN risk_metrics
        /\ SumSeq(risk_metrics.risk_contribution.num) = risk_metrics.risk_contribution.den

(***************************************************************************)
(* Claims about the regime classifier (checked under SpecRegime).          *)
(***************************************************************************)
Scored == rstage = "scored" /\ scoreOut.kind = "value"

\* C7: every computed score gets exactly one classification, fixed by the
\* thresholds alone: Calm when score < 12, Choppy when 12 <= score < 25,
\* Turbulent otherwise.
C7_ClassificationByThresholds ==
    Scored =>
        LET sc == market_status.score
        IN  /\ sc = scoreOut.score
            /\ market_status.message \in {"Calm", "Choppy", "Turbulent"}
            /\ (market_status.message = "Calm") <=> (sc.num < 12 * sc.den)
            /\ (market_status.message = "Choppy") <=>
                  (sc.num >= 12 * sc.den /\ sc.num < 25 * sc.den)
            /\ (market_status.message = "Turbulent") <=> (sc.num >= 25 * sc.den)

\* C7 witness: a score of exactly 12 is classified Choppy.
C7_Witness ==
    /\ Scored
    /\ market_status.score.num = 12 * market_status.score.den
    /\ market_status.message = "Choppy"

\* C8 as claimed: the score get_status reports is never negative.
C8_ScoreNonNegative ==
    rstage = "scored" => market_status.score.num >= 0

(***************************************************************************)
(* Claims about the endpoint (checked under Spec).                         *)
(***************************************************************************)
RegimeDone == rstage = "scored"

\* C6 as claimed: any exception while building or scoring the regime, a failed
\* weekly resampling included, makes get_status return the default with score
\* 0 and the Calm (Green) classification.
C6_AnyRegimeExceptionGivesDefault ==
    (RegimeDone /\ (~regime.weekly_ok \/ scoreOut.kind = "raise")) =>
        /\ market_status.score = Fin(0, 1)
        /\ market_status.color = "Green"

\* C6: the regime step never fails the request.  A failed weekly resampling
\* makes the regime use the daily returns, which are then scored as usual; an
\* exception while scoring makes get_status return score 0, Green, "Unknown";
\* in both cases nothing is raised and the endpoint goes on to allocation.
C6_RegimeNeverFailsRequest ==
    /\ RegimeDone =>
        /\ regime.source = (IF regime.weekly_ok THEN "weekly" ELSE "daily")
        /\ scoreOut.kind = "raise" =>
              /\ market_status.score = Fin(0, 1)
              /\ market_status.color = "Green"
              /\ market_status.message = "Unknown"
        /\ scoreOut.kind = "value" =>
              /\ market_status.score = scoreOut.score
              /\ market_status.message \in {"Calm", "Choppy", "Turbulent"}
    /\ (RegimeDone /\ astage = "none") => (pc = "allocate" /\ raised = NoException)

\* C6 witness: the weekly resampling failed and scoring raised, the status is
\* the default, and the endpoint has gone on to build a portfolio.
C6_Witness ==
    /\ RegimeDone
    /\ ~regime.weekly_ok
    /\ scoreOut.kind = "raise"
    /\ market_status = SafeDefault
    /\ astage = "returned"
    /\ pc = "corr"

\* C10 as claimed: every client error is answered with a 4xx status carrying
\* the reason, and every other exception with a 5xx status carrying only the
\* generic message.
C10_ErrorsMapToStatusClasses ==
    (pc = "done" /\ raised # NoException) =>
        /\ raised.cause = "client" =>
              /\ response.status \in 400..499
              /\ response.detail = raised.text
        /\ raised.cause = "internal" =>
              /\ response.status \in 500..599
              /\ response.detail = GenericDetail

(***************************************************************************)
(* Claims about clean_payload (checked under SpecClean).                   *)
(***************************************************************************)
\* Some float anywhere in the object is NaN or infinite.
RECURSIVE HasNonFinite(_)
HasNonFinite(o) ==
    \/ o.t = "float" /\ o.f.k # "fin"
    \/ \E i \in DOMAIN o.items : HasNonFinite(o.items[i])

\* c has the shape of o (tuples and arrays as lists), with 0 wherever o has a
\* NaN or an infinity and a float within half of 1e-4 of the original elsewhere.
RECURSIVE CleanedFrom(_, _)
CleanedFrom(o, c) ==
    IF o.t \in Containers
    THEN /\ c.t = (IF o.t = "dict" THEN "dict" ELSE "list")
         /\ Len(c.items) = Len(o.items)
         /\ \A i \in DOMAIN o.items : CleanedFrom(o.items[i], c.items[i])
    ELSE IF o.t = "float"
    THEN /\ c.t = "float"
         /\ c.f.k = "fin"
         /\ c.f.den = One
         /\ IF o.f.k # "fin" THEN c.f.num = 0
            ELSE 2 * Abs(c.f.num * o.f.den - o.f.num * One) <= o.f.den
    ELSE c = o

\* C11: whatever nesting of dicts, lists, tuples and arrays clean_payload is
\* given, what it returns holds no NaN and no infinity: each of them has been
\* replaced by 0, and every other value is kept (a float to 4 decimals).
C11_CleanedPayloadIsFinite ==
    cstage = "returned" =>
        /\ ~HasNonFinite(cleaned)
        /\ CleanedFrom(obj, cleaned)

\* C11 witness: a dict holding a tuple or an array that holds a NaN, cleaned
\* to lists with 0 in that place.
C11_Witness ==
    /\ cstage = "returned"
    /\ obj.t = "dict"
    /\ Len(obj.items) = 2
    /\ obj.items[1] = Float(Inf)
    /\ obj.items[2].t \in {"tuple", "array"}
    /\ Len(obj.items[2].items) = 1
    /\ obj.items[2].items[1] = Float(NaN)
    /\ cleaned.items[1].f.num = 0
    /\ cleaned.items[2].t = "list"
    /\ cleaned.items[2].items[1].f.num = 0

(***************************************************************************)
(* Claims about the paths of the cascade (checked under SpecAllocator).    *)
(***************************************************************************)
\* C12 as claimed: on every successful path through the cascade (HRP, NCO and
\* the mean-variance fallback) the weights pass through _apply_constraints
\* before they are returned.
C12_EnforcementOnEveryPath ==
    Succeeded => \E i \in DOMAIN built.steps : built.steps[i] = "_apply_constraints"

\* The sequence holds every ticker of the universe exactly once.
IsPermutation(order, tickers) ==
    /\ Len(order) = Len(tickers)
    /\ \A i \in DOMAIN tickers : \E j \in DOMAIN order : order[j] = tickers[i]

\* C13 as claimed: the cluster order of a successful allocation is a
\* permutation of the asset universe; it is the universe order when the result
\* comes from the mean-variance fallback (a failed primary attempt leaves no
\* order of its own) or when the clustering model exposes no leaf order.
C13_ClusterOrderIsPermutation ==
    Succeeded =>
        /\ IsPermutation(built.cluster_order, Tickers(architect.n))
        /\ (built.via = "MV" \/ primaryOut.port.sort_order = <<>>) =>
              built.cluster_order = Tickers(architect.n)

====
